---- MODULE Spec2Model ----
(***************************************************************************)
(* The incremental batch-recommendation flow of piliseed: the History      *)
(* detail page's "Load More" handler (handleLoadMore), the hardware        *)
(* readings endpoint it posts to (auto_generate_recommendations), and the  *)
(* Crops page (checkExistingRecommendations, handleFormSubmit), and the    *)
(* app shell's tab state (AnimatedRoutes: the pathname effect and          *)
(* handleTabChange).                                                       *)
(*                                                                         *)
(* A JavaScript value that may be null is a record with a "null" field, so *)
(* that every variable keeps one shape.  An async handler is one action    *)
(* per run-to-completion segment: up to its first await, and then from     *)
(* each awaited response to the next await.                                *)
(***************************************************************************)
EXTENDS Integers, Sequences, FiniteSets, TLC

\* ---------------------------------------------------------------- bounds

\* Handler invocations (handleLoadMore, handleFormSubmit) per mounted page.
MaxCalls == 2

\* Length of the short batch an exhausted generator may return.
ShortLen == 3

\* ------------------------------------------------------ program constants

\* "Your 8 crops MUST be completely different" / "exactly 8 crops".
BatchSize == 8

\* "Marks top 3 with is_top_3 = True".
TopCount == 3

\* The crops of the guide's three scenarios, in the order it lists them: the
\* pool the generator draws from.
CropNames ==
  << "Tomato", "Eggplant", "Pechay", "Okra", "Kangkong", "Lettuce", "Cabbage",
     "Bell Pepper", "Ampalaya", "Sitaw", "Mustasa", "Radish", "Carrots",
     "Chili Pepper", "Cucumber", "Squash", "Sweet Potato", "Ginger", "Turmeric",
     "Basil", "Parsley", "Coriander", "Lemongrass", "Mint" >>

SensorFields == {"soil_moisture_pct", "temperature_c", "humidity_pct", "light_lux"}

\* A field that is undefined on the JavaScript object (readings are >= 0).
Undefined == -1

\* useState<SensorData | null>(null)
NullSensorData ==
  [null |-> TRUE, soil_moisture_pct |-> Undefined, temperature_c |-> Undefined,
   humidity_pct |-> Undefined, light_lux |-> Undefined]

\* The readings of the guide's request example (tenths where it has a fraction).
CompleteReading ==
  [null |-> FALSE, soil_moisture_pct |-> 280, temperature_c |-> 267,
   humidity_pct |-> 780, light_lux |-> 200000]

\* A current_sensors record whose soil probe has not reported.
PartialReading == [CompleteReading EXCEPT !.soil_moisture_pct = Undefined]

\* useState<string | null>(null)
NoError == "null"

\* ------------------------------------------------------ sequence helpers

Range(s) == {s[i] : i \in DOMAIN s}

NoDuplicates(s) == \A i, j \in DOMAIN s : s[i] = s[j] => i = j

IsPrefix(s, t) == Len(s) <= Len(t) /\ SubSeq(t, 1, Len(s)) = s

Take(s, n) == SubSeq(s, 1, IF n < Len(s) THEN n ELSE Len(s))

RECURSIVE SelectNotIn(_, _)
\* s with the elements of the set `excluded` dropped, order kept.
SelectNotIn(s, excluded) ==
  IF s = <<>> THEN <<>>
  ELSE IF Head(s) \in excluded THEN SelectNotIn(Tail(s), excluded)
       ELSE <<Head(s)>> \o SelectNotIn(Tail(s), excluded)

Reverse(s) == [i \in 1..Len(s) |-> s[Len(s) + 1 - i]]

\* recommendations.map(crop => crop.crop), as a specification of the names.
CropNamesOf(recs) == [i \in 1..Len(recs) |-> recs[i].crop]

\* ------------------------------------------------------------ variables

VARIABLES
  page,             \* the component under study: "history", "crops", "shell"
  \* AnimatedRoutes
  pathname,         \* location.pathname
  activeTab,
  effectPending,    \* the pathname effect is due: pathname changed, or mount
  \* the backend
  session,          \* the recommendations stored in the session, in order
  current_sensors,  \* the sensor's current_sensors record
  hardware,         \* the hardware device's initial POST and its response
  \* HistoryDetailPage
  mounted,          \* the page's mount effect has run
  recommendations,  \* the displayed collection
  sensorId,
  sensorData,
  isLoadingMore,
  error,
  calls,            \* the handleLoadMore invocations, oldest first
  \* CropsPage
  cropsRecommendations,  \* recommendations: [null, items]
  isLoading,
  isGenerating,
  cropsError,
  check,            \* checkExistingRecommendations: its position and response
  submits           \* the handleFormSubmit invocations, oldest first

backendVars == <<session, current_sensors, hardware>>

historyVars ==
  <<mounted, recommendations, sensorId, sensorData, isLoadingMore, error, calls>>

cropsVars ==
  <<cropsRecommendations, isLoading, isGenerating, cropsError, check, submits>>

shellVars == <<pathname, activeTab, effectPending>>

vars == <<page, shellVars, backendVars, historyVars, cropsVars>>

\* ------------------------------------------------- the generator (Gemini)

\* "None yet (this is the first batch)"
FirstBatchSentinel == "None yet (this is the first batch)"

\* f"- {crop}"
CropLine(crop) == "- " \o crop

\* sensor_data.already_generated or []
AlreadyGeneratedCrops(body) ==
  IF body.already_generated.omitted THEN <<>> ELSE body.already_generated.list

\* An endpoint without the else branch: the join of no lines is no text.
CropsList_NoSentinel(already_generated_crops) ==
  [i \in 1..Len(already_generated_crops) |-> CropLine(already_generated_crops[i])]

\* crops_list: the lines that replace {already_generated} in the prompt
\* ("\n".join of the lines is the sequence of the lines).
CropsList(already_generated_crops) ==
  IF Len(already_generated_crops) > 0
  THEN [i \in 1..Len(already_generated_crops) |->
          CropLine(already_generated_crops[i])]
  ELSE <<FirstBatchSentinel>>

\* The pool names the prompt tells the generator not to repeat.
Listed(crops_list) == {n \in Range(CropNames) : CropLine(n) \in Range(crops_list)}

\* What the generator may answer.  It is a language model: it may honour the
\* list ("fresh", "reversed"), run out of candidates early ("short"), return
\* nothing ("empty") or ignore the list ("repeat").
HonestModes == {"fresh", "reversed", "short", "empty"}

GeneratorModes == HonestModes \cup {"repeat"}

GenerateNames(crops_list, mode) ==
  LET fresh == SelectNotIn(CropNames, Listed(crops_list))
  IN  CASE mode = "fresh"    -> Take(fresh, BatchSize)
        [] mode = "reversed" -> Take(Reverse(fresh), BatchSize)
        [] mode = "short"    -> Take(fresh, ShortLen)
        [] mode = "empty"    -> <<>>
        [] mode = "repeat"   -> Take(CropNames, BatchSize)

\* -------------------------- POST /recommendations/hardware/{id}/readings

\* HardwareSensorData: four required floats.
ValidSensorData(body) == \A f \in SensorFields : body[f] # Undefined

\* An endpoint that leaves is_top_3 at its default, False.
MarkTop3_Unmarked(names) ==
  [i \in 1..Len(names) |-> [crop |-> names[i], is_top_3 |-> FALSE]]

\* "Marks top 3 with is_top_3 = True": the generator returns its crops ranked.
MarkTop3(names) ==
  [i \in 1..Len(names) |-> [crop |-> names[i], is_top_3 |-> i <= TopCount]]

Top3Names(batch) ==
  CropNamesOf(SelectSeq(batch, LAMBDA r : r.is_top_3))

\* AutoRecommendationResponse
AutoRecommendationResponse(batch) ==
  [status |-> 200, top_3_crops |-> Top3Names(batch),
   total_crops_generated |-> Len(batch)]

ErrorResponse(status) ==
  [status |-> status, top_3_crops |-> <<>>, total_crops_generated |-> 0]

\* The fetch was rejected: there is no response (status 0).
NoResponse == ErrorResponse(0)

\* The recommendations the endpoint stores for this request.
GeneratedBatch(body, mode) ==
  MarkTop3(GenerateNames(CropsList(AlreadyGeneratedCrops(body)), mode))

\* "Appends new crops to the same session"
AppendToSession(stored, batch) == stored \o batch

\* ------------------------------------------------------ HistoryDetailPage

NoSensorId == "null"

\* data.sensor_id of the session
SensorId == "690775fbd4b2e905b8da38cb"

\* A handler that sends only the names of the batch loaded last.
AlreadyGenerated_LastBatchOnly(recs) ==
  [i \in 1..(IF Len(recs) > BatchSize THEN BatchSize ELSE Len(recs)) |->
     recs[i + (IF Len(recs) > BatchSize THEN Len(recs) - BatchSize ELSE 0)].crop]

\* A handler that sends the names newest first.
AlreadyGenerated_Reversed(recs) == [i \in 1..Len(recs) |-> recs[Len(recs) + 1 - i].crop]

\* const alreadyGenerated = recommendations.map(crop => crop.crop);
AlreadyGenerated(recs) == [i \in 1..Len(recs) |-> recs[i].crop]

\* body: JSON.stringify({soil_moisture_pct: sensorData.soil_moisture_pct, ...,
\* already_generated: alreadyGenerated}); an undefined field is left out.
LoadMoreBody(data, already) ==
  [soil_moisture_pct |-> data.soil_moisture_pct,
   temperature_c     |-> data.temperature_c,
   humidity_pct      |-> data.humidity_pct,
   light_lux         |-> data.light_lux,
   already_generated |-> [omitted |-> FALSE, list |-> already]]

\* The hardware device's body: four readings, no already_generated.
HardwareBody ==
  [soil_moisture_pct |-> CompleteReading.soil_moisture_pct,
   temperature_c     |-> CompleteReading.temperature_c,
   humidity_pct      |-> CompleteReading.humidity_pct,
   light_lux         |-> CompleteReading.light_lux,
   already_generated |-> [omitted |-> TRUE, list |-> <<>>]]

NoBody == [HardwareBody EXCEPT !.soil_moisture_pct = Undefined,
             !.temperature_c = Undefined, !.humidity_pct = Undefined,
             !.light_lux = Undefined]

\* A button that is disabled only for want of sensor data.
LoadMoreButtonDisabled_SensorOnly == sensorData.null

\* disabled={isLoadingMore || !sensorData}
LoadMoreButtonDisabled == isLoadingMore \/ sensorData.null

\* if (!sensorId || !sensorData)
SensorDataNotAvailable == sensorId = NoSensorId \/ sensorData.null

\* A thrown value: what `err instanceof Error` and err.message give.
GenerationError == [isError |-> TRUE, message |-> "Failed to generate more recommendations"]

\* fetch rejects with a TypeError when the network fails.
NetworkError == [isError |-> TRUE, message |-> "Failed to fetch"]

\* err instanceof Error ? err.message : 'Failed to load more recommendations'
LoadMoreErrorMessage(err) ==
  IF err.isError THEN err.message ELSE "Failed to load more recommendations"

\* The invocations whose POST or refetch is outstanding.
InFlight == {i \in DOMAIN calls : calls[i].pc \in {"post", "refetch"}}

\* One handleLoadMore invocation.  before, sensor, body, response, raised and
\* after are the handler's own values (its closure's recommendations and
\* sensorData, the request it sent, the number of POSTs and of GETs it sent,
\* the response it awaited, what it passed to setError, the collection it
\* left); overlaps is the invocations that were outstanding when it started;
\* prompt, stored and exclusive are the server's record of the request:
\* exclusive says that the session was exactly `before` when the batch was
\* appended and that nothing else was appended until the refetch.
NewCall(pc, recs, body, posts, raised) ==
  [pc |-> pc, before |-> recs, sensor |-> sensorData, body |-> body,
   posts |-> posts, gets |-> 0, overlaps |-> InFlight,
   response |-> NoResponse, prompt |-> <<>>, stored |-> <<>>,
   exclusive |-> FALSE, raised |-> raised, after |-> <<>>]

SensorDataUnavailableMessage ==
  "Cannot load more recommendations: sensor data not available"

\* handleLoadMore, to its first await.
handleLoadMore ==
  /\ page = "history"
  /\ Len(calls) < MaxCalls
  /\ IF SensorDataNotAvailable
     THEN /\ error' = SensorDataUnavailableMessage
          /\ calls' = Append(calls, NewCall("rejected", recommendations, NoBody,
                                            0, SensorDataUnavailableMessage))
          /\ UNCHANGED isLoadingMore
     ELSE /\ isLoadingMore' = TRUE
          /\ error' = NoError
          /\ calls' = Append(calls,
               NewCall("post", recommendations,
                       LoadMoreBody(sensorData, AlreadyGenerated(recommendations)),
                       1, NoError))
  /\ UNCHANGED <<page, shellVars, backendVars, mounted, recommendations, sensorId,
                 sensorData, cropsVars>>

\* The user clicks the Load More button.
ClickLoadMore ==
  /\ ~LoadMoreButtonDisabled
  /\ handleLoadMore

\* A catch block that also clears the collection.
LoadMoreFailed_ClearsCollection(log, i, response, err) ==
  /\ recommendations' = <<>>
  /\ UNCHANGED <<mounted, sensorId, sensorData>>
  /\ error' = LoadMoreErrorMessage(err)
  /\ isLoadingMore' = FALSE
  /\ calls' = [log EXCEPT ![i].pc = "failed", ![i].response = response,
                          ![i].raised = LoadMoreErrorMessage(err),
                          ![i].after = recommendations']

\* A catch block that sends the request once more before giving up.
LoadMoreFailed_Retries(log, i, response, err) ==
  /\ UNCHANGED <<mounted, recommendations, sensorId, sensorData>>
  /\ error' = LoadMoreErrorMessage(err)
  /\ isLoadingMore' = FALSE
  /\ calls' = [log EXCEPT ![i].pc = "failed", ![i].response = response,
                          ![i].posts = log[i].posts + 1,
                          ![i].raised = LoadMoreErrorMessage(err),
                          ![i].after = recommendations']

\* catch (err) { setError(...) } finally { setIsLoadingMore(false) }, for call
\* i of the log `log`.
LoadMoreFailed(log, i, response, err) ==
  /\ UNCHANGED <<mounted, recommendations, sensorId, sensorData>>
  /\ error' = LoadMoreErrorMessage(err)
  /\ isLoadingMore' = FALSE
  /\ calls' = [log EXCEPT ![i].pc = "failed", ![i].response = response,
                          ![i].raised = LoadMoreErrorMessage(err),
                          ![i].after = recommendations']

AwaitingPost(i) == i \in DOMAIN calls /\ calls[i].pc = "post" /\ page = "history"

\* The POST never reaches the server: fetch rejects.
PostUnreachable(i) ==
  /\ AwaitingPost(i)
  /\ LoadMoreFailed(calls, i, NoResponse, NetworkError)
  /\ UNCHANGED <<page, shellVars, backendVars, cropsVars>>

\* The server refuses a body that lacks a reading (422); !response.ok throws.
PostInvalid(i) ==
  /\ AwaitingPost(i)
  /\ ~ValidSensorData(calls[i].body)
  /\ LoadMoreFailed(calls, i, ErrorResponse(422), GenerationError)
  /\ UNCHANGED <<page, shellVars, backendVars, cropsVars>>

\* The server fails while generating (500); !response.ok throws.
PostServerError(i) ==
  /\ AwaitingPost(i)
  /\ ValidSensorData(calls[i].body)
  /\ LoadMoreFailed(calls, i, ErrorResponse(500), GenerationError)
  /\ UNCHANGED <<page, shellVars, backendVars, cropsVars>>

\* The server's side of a stored batch: the session grows, the request is
\* logged, and every call whose refetch is still to come has been overtaken.
ServerStores(i, batch) ==
  [j \in DOMAIN calls |->
     IF j = i
     THEN [calls[j] EXCEPT
             !.prompt = CropsList(AlreadyGeneratedCrops(calls[i].body)),
             !.stored = batch,
             !.exclusive = (calls[i].before = session)]
     ELSE IF calls[j].pc = "refetch"
          THEN [calls[j] EXCEPT !.exclusive = FALSE]
          ELSE calls[j]]

\* A handler that fails when the response names a crop it already shows.
PostStored_RejectsRepeated(i, mode) ==
  /\ AwaitingPost(i)
  /\ ValidSensorData(calls[i].body)
  /\ LET batch == GeneratedBatch(calls[i].body, mode)
     IN  /\ session' = AppendToSession(session, batch)
         /\ IF Range(Top3Names(batch)) \cap Range(CropNamesOf(calls[i].before)) # {}
            THEN LoadMoreFailed(ServerStores(i, batch), i,
                                AutoRecommendationResponse(batch), GenerationError)
            ELSE /\ calls' = [ServerStores(i, batch) EXCEPT
                               ![i].pc = "refetch", ![i].gets = 1,
                               ![i].response = AutoRecommendationResponse(batch)]
                 /\ UNCHANGED <<mounted, recommendations, sensorId, sensorData,
                                isLoadingMore, error>>
  /\ UNCHANGED <<page, shellVars, current_sensors, hardware, cropsVars>>

\* A handler that takes a batch of fewer than 8 for a failed generation.
PostStored_RejectsShort(i, mode) ==
  /\ AwaitingPost(i)
  /\ ValidSensorData(calls[i].body)
  /\ LET batch == GeneratedBatch(calls[i].body, mode)
     IN  /\ session' = AppendToSession(session, batch)
         /\ IF Len(batch) < BatchSize
            THEN LoadMoreFailed(ServerStores(i, batch), i,
                                AutoRecommendationResponse(batch), GenerationError)
            ELSE /\ calls' = [ServerStores(i, batch) EXCEPT
                               ![i].pc = "refetch", ![i].gets = 1,
                               ![i].response = AutoRecommendationResponse(batch)]
                 /\ UNCHANGED <<mounted, recommendations, sensorId, sensorData,
                                isLoadingMore, error>>
  /\ UNCHANGED <<page, shellVars, current_sensors, hardware, cropsVars>>

\* The server generates and stores a batch and answers 200; the handler goes
\* on to `await fetchSessionDetails()`, which sends the GET for the session.
PostStored(i, mode) ==
  /\ AwaitingPost(i)
  /\ ValidSensorData(calls[i].body)
  /\ LET batch == GeneratedBatch(calls[i].body, mode)
     IN  /\ session' = AppendToSession(session, batch)
         /\ calls' = [ServerStores(i, batch) EXCEPT
                        ![i].pc = "refetch", ![i].gets = 1,
                        ![i].response = AutoRecommendationResponse(batch)]
  /\ UNCHANGED <<page, shellVars, current_sensors, hardware, mounted, recommendations,
                 sensorId, sensorData, isLoadingMore, error, cropsVars>>

\* The server stores a batch, but its answer is lost on the way back: fetch
\* rejects.
PostStoredResponseLost(i, mode) ==
  /\ AwaitingPost(i)
  /\ ValidSensorData(calls[i].body)
  /\ LET batch == GeneratedBatch(calls[i].body, mode)
     IN  /\ session' = AppendToSession(session, batch)
         /\ LoadMoreFailed(ServerStores(i, batch), i, NoResponse, NetworkError)
  /\ UNCHANGED <<page, shellVars, current_sensors, hardware, cropsVars>>

AwaitingRefetch(i) ==
  i \in DOMAIN calls /\ calls[i].pc = "refetch" /\ page = "history"

\* fetchSessionDetails: the session's recommendations replace the displayed
\* ones; then, if (data.sensor_id), the sensor's current_sensors are fetched
\* and, if (sensorResponse.ok), kept; a failure there is only logged.
fetchSessionDetails(sensorOk) ==
  /\ recommendations' = session
  /\ sensorId' = SensorId
  /\ sensorData' = IF sensorOk THEN current_sensors ELSE sensorData

\* A handler that does not refetch the session after the POST.
LoadMoreRefetched_NoRefetch(i, sensorOk) ==
  /\ AwaitingRefetch(i)
  /\ UNCHANGED <<recommendations, sensorId, sensorData>>
  /\ isLoadingMore' = FALSE
  /\ calls' = [calls EXCEPT ![i].pc = "merged", ![i].after = recommendations']
  /\ UNCHANGED <<page, shellVars, backendVars, mounted, error, cropsVars>>

\* The entries of recs whose crop name no earlier entry has.
RECURSIVE FirstOccurrences(_)
FirstOccurrences(recs) ==
  IF recs = <<>> THEN <<>>
  ELSE LET front == FirstOccurrences(SubSeq(recs, 1, Len(recs) - 1))
           last  == recs[Len(recs)]
       IN  IF \E k \in DOMAIN front : front[k].crop = last.crop
           THEN front
           ELSE Append(front, last)

\* A handler that drops repeated crop names from what it refetched.
LoadMoreRefetched_Deduplicates(i, sensorOk) ==
  /\ AwaitingRefetch(i)
  /\ recommendations' = FirstOccurrences(session)
  /\ sensorId' = SensorId
  /\ sensorData' = (IF sensorOk THEN current_sensors ELSE sensorData)
  /\ isLoadingMore' = FALSE
  /\ calls' = [calls EXCEPT ![i].pc = "merged", ![i].gets = 2,
                            ![i].after = recommendations']
  /\ UNCHANGED <<page, shellVars, backendVars, mounted, error, cropsVars>>

\* await fetchSessionDetails() returns, the session's data.sensor_id having
\* made it send the GET for the sensor; finally { setIsLoadingMore(false) }.
LoadMoreRefetched(i, sensorOk) ==
  /\ AwaitingRefetch(i)
  /\ fetchSessionDetails(sensorOk)
  /\ isLoadingMore' = FALSE
  /\ calls' = [calls EXCEPT ![i].pc = "merged", ![i].gets = 2,
                            ![i].after = recommendations']
  /\ UNCHANGED <<page, shellVars, backendVars, mounted, error, cropsVars>>

\* The page's mount effect: fetchSessionDetails().  The page shows a session
\* that exists: the one the hardware's request opened.
MountHistoryDetail(sensorOk) ==
  /\ page = "history"
  /\ hardware.pc = "done"
  /\ ~mounted
  /\ mounted' = TRUE
  /\ fetchSessionDetails(sensorOk)
  /\ UNCHANGED <<page, shellVars, backendVars, isLoadingMore, error, calls, cropsVars>>

\* The hardware device's initial request, which opens the session: no
\* already_generated; the response carries the top 3 names only.
HardwareReadings(mode) ==
  /\ page = "history"
  /\ hardware.pc = "idle"
  /\ session = <<>>
  /\ LET batch == GeneratedBatch(HardwareBody, mode)
     IN  /\ session' = AppendToSession(session, batch)
         /\ hardware' = [pc |-> "done",
                         prompt |-> CropsList(AlreadyGeneratedCrops(HardwareBody)),
                         stored |-> batch,
                         response |-> AutoRecommendationResponse(batch)]
  /\ UNCHANGED <<page, shellVars, current_sensors, historyVars, cropsVars>>

\* -------------------------------------------------------------- CropsPage

\* useState<CropRecommendation[] | null>(null)
NullRecommendations == [null |-> TRUE, items |-> <<>>]

SomeRecommendations(items) == [null |-> FALSE, items |-> items]

\* data.recommendations of a response body: undefined, or a list.
UndefinedPayload == [undefined |-> TRUE, list |-> <<>>]

ListPayload(list) == [undefined |-> FALSE, list |-> list]

\* The bodies a 200 response may carry.
Payloads ==
  {UndefinedPayload, ListPayload(<<>>),
   ListPayload(MarkTop3(GenerateNames(<<FirstBatchSentinel>>, "fresh"))),
   ListPayload(MarkTop3(GenerateNames(<<FirstBatchSentinel>>, "reversed")))}

\* setRecommendations(data.recommendations)
FromPayload(payload) ==
  IF payload.undefined THEN NullRecommendations
  ELSE SomeRecommendations(payload.list)

\* if (data.recommendations && data.recommendations.length > 0)
HasRecommendations(payload) == ~payload.undefined /\ Len(payload.list) > 0

\* The statuses of a response that is not ok and not 404.
FailureStatuses == {500, 503}

\* checkExistingRecommendations, to its await: setIsLoading(true).
checkExistingRecommendations ==
  /\ page = "crops"
  /\ check.pc = "idle"
  /\ isLoading' = TRUE
  /\ check' = [pc |-> "pending", status |-> 0]
  /\ UNCHANGED <<page, shellVars, backendVars, historyVars, cropsRecommendations,
                 isGenerating, cropsError, submits>>

\* A check that takes every response that is not ok, 404 included, for a
\* failure and reports it.
CheckAnswered_404IsError(status, payload) ==
  /\ page = "crops"
  /\ check.pc = "pending"
  /\ cropsRecommendations' =
       IF status = 200 /\ HasRecommendations(payload)
       THEN SomeRecommendations(payload.list)
       ELSE NullRecommendations
  /\ cropsError' = IF status = 200 THEN cropsError
                   ELSE "Failed to check recommendations"
  /\ isLoading' = FALSE
  /\ check' = [pc |-> "done", status |-> status]
  /\ UNCHANGED <<page, shellVars, backendVars, historyVars, isGenerating, submits>>

\* The rest of checkExistingRecommendations once the GET has answered with
\* `status` (0: fetch rejected) and body `payload`.
CheckAnswered(status, payload) ==
  /\ page = "crops"
  /\ check.pc = "pending"
  /\ cropsRecommendations' =
       IF status = 200 /\ HasRecommendations(payload)
       THEN SomeRecommendations(payload.list)
       ELSE NullRecommendations
  /\ isLoading' = FALSE
  /\ check' = [pc |-> "done", status |-> status]
  /\ UNCHANGED <<page, shellVars, backendVars, historyVars, isGenerating, cropsError,
                 submits>>

\* A page that keeps the form above the grid.
FarmerFormShown_Always == ~isLoading

\* {!recommendations ? <FarmerForm .../> : ...}, below `if (isLoading)`.
FarmerFormShown == ~isLoading /\ cropsRecommendations.null

\* <FarmerForm onSubmit={handleFormSubmit} isLoading={isGenerating} />: the
\* form does not submit while isLoading.
FarmerFormSubmitEnabled == ~isGenerating

GenerateError == [isError |-> TRUE, message |-> "Failed to generate recommendations"]

\* err instanceof Error ? err.message : 'An error occurred'
FormErrorMessage(err) == IF err.isError THEN err.message ELSE "An error occurred"

\* A handler that does not clear the error when it starts.
handleFormSubmit_KeepsError ==
  /\ page = "crops"
  /\ Len(submits) < MaxCalls
  /\ isGenerating' = TRUE
  /\ submits' = Append(submits,
       [pc |-> "post", before |-> cropsRecommendations, status |-> 0,
        raised |-> NoError, after |-> NullRecommendations])
  /\ UNCHANGED <<page, shellVars, backendVars, historyVars, cropsRecommendations,
                 isLoading, cropsError, check>>

\* handleFormSubmit, to its await: setIsGenerating(true); setError(null).
handleFormSubmit ==
  /\ page = "crops"
  /\ Len(submits) < MaxCalls
  /\ isGenerating' = TRUE
  /\ cropsError' = NoError
  /\ submits' = Append(submits,
       [pc |-> "post", before |-> cropsRecommendations, status |-> 0,
        raised |-> NoError, after |-> NullRecommendations])
  /\ UNCHANGED <<page, shellVars, backendVars, historyVars, cropsRecommendations,
                 isLoading, check>>

\* The user submits the farmer form.
SubmitFarmerForm ==
  /\ FarmerFormShown
  /\ FarmerFormSubmitEnabled
  /\ handleFormSubmit

AwaitingGenerate(i) ==
  i \in DOMAIN submits /\ submits[i].pc = "post" /\ page = "crops"

\* response.ok: setRecommendations(data.recommendations); finally.
GenerateAnswered(i, payload) ==
  /\ AwaitingGenerate(i)
  /\ cropsRecommendations' = FromPayload(payload)
  /\ isGenerating' = FALSE
  /\ submits' = [submits EXCEPT ![i].pc = "generated", ![i].status = 200,
                                ![i].after = cropsRecommendations']
  /\ UNCHANGED <<page, shellVars, backendVars, historyVars, isLoading, cropsError, check>>

\* A handler without the finally block: a failure leaves isGenerating set.
GenerateFailed_KeepsGenerating(i, status) ==
  /\ AwaitingGenerate(i)
  /\ UNCHANGED cropsRecommendations
  /\ LET err == IF status = 0 THEN NetworkError ELSE GenerateError
     IN  /\ cropsError' = FormErrorMessage(err)
         /\ submits' = [submits EXCEPT ![i].pc = "failed", ![i].status = status,
                                       ![i].raised = FormErrorMessage(err),
                                       ![i].after = cropsRecommendations']
  /\ UNCHANGED <<page, shellVars, backendVars, historyVars, isLoading, isGenerating, check>>

\* !response.ok (status) or a rejected fetch (0): catch, finally.
GenerateFailed(i, status) ==
  /\ AwaitingGenerate(i)
  /\ UNCHANGED cropsRecommendations
  /\ LET err == IF status = 0 THEN NetworkError ELSE GenerateError
     IN  /\ cropsError' = FormErrorMessage(err)
         /\ submits' = [submits EXCEPT ![i].pc = "failed", ![i].status = status,
                                       ![i].raised = FormErrorMessage(err),
                                       ![i].after = cropsRecommendations']
  /\ isGenerating' = FALSE
  /\ UNCHANGED <<page, shellVars, backendVars, historyVars, isLoading, check>>

\* --------------------------------------------------------- AnimatedRoutes

GreenhouseIds == {"g1", "g2", "g3"}

SessionIds == {"s1", "s2"}

\* The paths of the routes, for the ids above and crop index 0.
Paths ==
  {"/", "/chat", "/settings", "/history"}
  \cup {"/greenhouse/" \o g : g \in GreenhouseIds}
  \cup {"/greenhouse/" \o g \o "/crops" : g \in GreenhouseIds}
  \cup {"/greenhouse/" \o g \o "/crops/0" : g \in GreenhouseIds}
  \cup {"/history/" \o h : h \in SessionIds}
  \cup {"/history/" \o h \o "/crops/0" : h \in SessionIds}

\* The tabs handleTabChange tells apart.
Tabs == {"home", "chat", "data", "plant", "history"}

\* The n characters of s from position i on; "" where s does not reach.
Slice(s, i, n) ==
  IF i >= 1 /\ n >= 1 /\ i + n - 1 <= Len(s) THEN SubSeq(s, i, i + n - 1) ELSE ""

\* String.prototype.includes
Includes(s, part) == \E i \in 1..Len(s) : Slice(s, i, Len(part)) = part

\* The last position of the run of characters other than "/" that starts at
\* i (i - 1 if there is none): what [^\/]+ takes.
SegmentEnd(s, i) ==
  LET stops == {k \in i..Len(s) : Slice(s, k, 1) = "/"}
  IN  IF stops = {} THEN Len(s)
      ELSE (CHOOSE k \in stops : \A m \in stops : k <= m) - 1

Digits == {"0", "1", "2", "3", "4", "5", "6", "7", "8", "9"}

\* pathname.match(/<prefix>[^\/]+\/crops\/\d+/)
MatchesCropIndex(s, prefix) ==
  \E i \in 1..Len(s) :
    /\ Slice(s, i, Len(prefix)) = prefix
    /\ LET a == i + Len(prefix)
           e == SegmentEnd(s, a)
       IN  /\ e >= a
           /\ Slice(s, e + 1, 7) = "/crops/"
           /\ Slice(s, e + 8, 1) \in Digits

\* const isDetailPage = location.pathname.includes('/greenhouse/');
isDetailPage == Includes(pathname, "/greenhouse/")

\* shouldHideNavbar
shouldHideNavbar ==
  \/ MatchesCropIndex(pathname, "/greenhouse/")
  \/ MatchesCropIndex(pathname, "/history/")
  \/ pathname = "/settings"

\* location.pathname.match(/\/greenhouse\/([^\/]+)/): the positions where the
\* pattern matches; the match is the leftmost.
GreenhouseMatches(s) ==
  {i \in 1..Len(s) :
     /\ Slice(s, i, 12) = "/greenhouse/"
     /\ SegmentEnd(s, i + 12) >= i + 12}

\* match[1]
GreenhouseId(s) ==
  LET i == CHOOSE k \in GreenhouseMatches(s) : \A m \in GreenhouseMatches(s) : k <= m
  IN  SubSeq(s, i + 12, SegmentEnd(s, i + 12))

\* useEffect(() => {...}, [location.pathname]): runs after the mount and after
\* every render in which the pathname has changed.
PathnameEffect ==
  /\ page = "shell"
  /\ effectPending
  /\ activeTab' =
       IF pathname = "/" THEN "home"
       ELSE IF pathname = "/chat" THEN "chat"
       ELSE IF Includes(pathname, "/crops") THEN "plant"
       ELSE IF Includes(pathname, "/history") THEN "history"
       ELSE IF Includes(pathname, "/greenhouse/") THEN "data"
       ELSE activeTab
  /\ effectPending' = FALSE
  /\ UNCHANGED <<page, pathname, backendVars, historyVars, cropsVars>>

\* navigate(to): the effect is due if the pathname has changed.
navigate(to) ==
  /\ pathname' = to
  /\ effectPending' = (effectPending \/ to # pathname)

\* handleTabChange(tab).  An event handler runs once the effects of the last
\* render have run.
handleTabChange(tab) ==
  /\ page = "shell"
  /\ ~effectPending
  /\ activeTab' = tab
  /\ IF tab = "chat" THEN navigate("/chat")
     ELSE IF tab = "data" /\ isDetailPage
       THEN IF GreenhouseMatches(pathname) # {}
            THEN navigate("/greenhouse/" \o GreenhouseId(pathname))
            ELSE UNCHANGED <<pathname, effectPending>>
     ELSE IF tab = "plant" /\ isDetailPage
       THEN IF GreenhouseMatches(pathname) # {}
            THEN navigate("/greenhouse/" \o GreenhouseId(pathname) \o "/crops")
            ELSE UNCHANGED <<pathname, effectPending>>
     ELSE IF tab = "history" THEN navigate("/history")
     ELSE IF tab = "home" THEN navigate("/")
     ELSE UNCHANGED <<pathname, effectPending>>
  /\ UNCHANGED <<page, backendVars, historyVars, cropsVars>>

\* The user picks a tab of the nav bar, which is rendered unless
\* shouldHideNavbar.
SelectTab(tab) ==
  /\ ~shouldHideNavbar
  /\ handleTabChange(tab)

\* The location changes otherwise: a link of a page, the browser's back.
RouteChange(path) ==
  /\ page = "shell"
  /\ ~effectPending
  /\ path # pathname
  /\ navigate(path)
  /\ UNCHANGED <<page, activeTab, backendVars, historyVars, cropsVars>>

\* ---------------------------------------------------------- specifications

Pages == {"history", "crops"}

\* What the sensor's record may hold.
SensorRecords == {CompleteReading, PartialReading, NullSensorData}

\* The paths at which a component is mounted.
PathsOf(p) ==
  CASE p = "history" -> {"/history/s1"}
    [] p = "crops"   -> {"/greenhouse/g1/crops"}
    [] OTHER         -> Paths

InitOn(pages) ==
  /\ page \in pages
  /\ pathname \in PathsOf(page)
  /\ activeTab = "home"
  /\ effectPending = TRUE
  /\ session = <<>>
  /\ current_sensors \in
       IF page = "history" THEN SensorRecords ELSE {CompleteReading}
  /\ hardware = [pc |-> "idle", prompt |-> <<>>, stored |-> <<>>,
                 response |-> NoResponse]
  /\ mounted = FALSE
  /\ recommendations = <<>>
  /\ sensorId = NoSensorId
  /\ sensorData = NullSensorData
  /\ isLoadingMore = FALSE
  /\ error = NoError
  /\ calls = <<>>
  /\ cropsRecommendations = NullRecommendations
  /\ isLoading = TRUE
  /\ isGenerating = FALSE
  /\ cropsError = NoError
  /\ check = [pc |-> "idle", status |-> 0]
  /\ submits = <<>>

Init == InitOn(Pages)

InitHistory == InitOn({"history"})

CallIds == 1..(MaxCalls + 1)

\* What happens to requests in flight, whoever sent them.
Environment(modes) ==
  \/ \E mode \in modes : HardwareReadings(mode)
  \/ \E sensorOk \in BOOLEAN : MountHistoryDetail(sensorOk)
  \/ \E i \in CallIds : PostUnreachable(i)
  \/ \E i \in CallIds : PostInvalid(i)
  \/ \E i \in CallIds : PostServerError(i)
  \/ \E i \in CallIds, mode \in modes : PostStored(i, mode)
  \/ \E i \in CallIds, mode \in modes : PostStoredResponseLost(i, mode)
  \/ \E i \in CallIds, sensorOk \in BOOLEAN : LoadMoreRefetched(i, sensorOk)
  \/ checkExistingRecommendations
  \/ \E payload \in Payloads : CheckAnswered(200, payload)
  \/ CheckAnswered(404, UndefinedPayload)
  \/ \E status \in FailureStatuses \cup {0} : CheckAnswered(status, UndefinedPayload)
  \/ \E i \in CallIds, payload \in Payloads : GenerateAnswered(i, payload)
  \/ \E i \in CallIds, status \in FailureStatuses \cup {0} : GenerateFailed(i, status)

\* The handlers called by any caller, at any time.
Next ==
  \/ handleLoadMore
  \/ handleFormSubmit
  \/ Environment(GeneratorModes)

Spec == Init /\ [][Next]_vars

\* The handlers called only through the controls the pages render.
NextUI ==
  \/ ClickLoadMore
  \/ SubmitFarmerForm
  \/ Environment(GeneratorModes)

SpecUI == Init /\ [][NextUI]_vars

\* One Load More at a time, every call successful, and a generator that
\* honours the list it is given.
NextSequential ==
  \/ ClickLoadMore
  \/ \E mode \in HonestModes : HardwareReadings(mode)
  \/ \E sensorOk \in BOOLEAN : MountHistoryDetail(sensorOk)
  \/ \E i \in CallIds, mode \in HonestModes : PostStored(i, mode)
  \/ \E i \in CallIds, sensorOk \in BOOLEAN : LoadMoreRefetched(i, sensorOk)

SpecSequential == InitHistory /\ [][NextSequential]_vars

InitShell == InitOn({"shell"})

\* The app shell: the pathname effect, the nav bar's tabs, route changes.
NextShell ==
  \/ PathnameEffect
  \/ \E tab \in Tabs : SelectTab(tab)
  \/ \E path \in Paths : RouteChange(path)

SpecShell == InitShell /\ [][NextShell]_vars

\* ------------------------------------------------------------------ claims

\* The invocations that have ended with the batch merged.
Merged == {i \in DOMAIN calls : calls[i].pc = "merged"}

\* The invocations that sent the generation request.
Posted == {i \in DOMAIN calls : calls[i].posts > 0}

\* C1: under sequential successful Load More calls and a generator whose
\* batches are pairwise distinct and disjoint from the list it was sent
\* (SpecSequential), no crop name appears twice in the displayed collection, nor
\* in the stored session it is read from.
C1_NamesUnique ==
  /\ NoDuplicates(CropNamesOf(recommendations))
  /\ NoDuplicates(CropNamesOf(session))

\* C1's case: two Load More calls have been merged on top of the first batch.
C1_Witness ==
  /\ Cardinality(Merged) = 2
  /\ Len(recommendations) = 3 * BatchSize

Fails(log, logAfter, i) ==
  i \in DOMAIN log /\ log[i].pc = "post" /\ logAfter[i].pc = "failed"

\* C3: the step in which a generation request fails (a rejected fetch or a
\* non-success status) leaves the collection as it was and sets the error state
\* to the non-empty message the failure carries; starting a request does not
\* touch the collection either.  On both pages.
C3_FailureKeepsCollection ==
  [][
      /\ \A i \in DOMAIN calls :
          Fails(calls, calls', i) =>
            /\ recommendations' = recommendations
            /\ calls'[i].raised \notin {NoError, ""}
            /\ error' = calls'[i].raised
      /\ \A i \in DOMAIN submits :
          Fails(submits, submits', i) =>
            /\ cropsRecommendations' = cropsRecommendations
            /\ submits'[i].raised \notin {NoError, ""}
            /\ cropsError' = submits'[i].raised
      /\ (Len(calls') > Len(calls)) => (recommendations' = recommendations)
      /\ (Len(submits') > Len(submits)) =>
           (cropsRecommendations' = cropsRecommendations)
    ]_vars

\* C3's case: a Load More got a 500 while a collection was displayed.
C3_Witness ==
  \E i \in DOMAIN calls :
    /\ calls[i].pc = "failed"
    /\ calls[i].response.status = 500
    /\ recommendations # <<>>
    /\ error = "Failed to generate more recommendations"

\* C4: the already_generated list of every request sent is the crop names of
\* the collection the handler held, one per entry and in its order, and two
\* requests from the same collection carry the same list.
C4_ExclusionListIsNames ==
  /\ \A i \in Posted :
       LET sent == calls[i].body.already_generated
       IN  /\ ~sent.omitted
           /\ Len(sent.list) = Len(calls[i].before)
           /\ \A k \in 1..Len(sent.list) : sent.list[k] = calls[i].before[k].crop
  /\ \A i, j \in Posted :
       calls[i].before = calls[j].before =>
         calls[i].body.already_generated = calls[j].body.already_generated

\* C4's case: a request was sent from a collection of two batches.
C4_Witness ==
  \E i \in Posted :
    /\ Len(calls[i].before) = 2 * BatchSize
    /\ Len(calls[i].body.already_generated.list) = 2 * BatchSize

\* The requests the endpoint has put to the generator: body and prompt lines.
Prompted ==
  {[body |-> calls[i].body, prompt |-> calls[i].prompt] :
     i \in {j \in DOMAIN calls : calls[j].prompt # <<>>}}
  \cup (IF hardware.pc = "done"
        THEN {[body |-> HardwareBody, prompt |-> hardware.prompt]}
        ELSE {})

\* C5: with already_generated omitted or empty the generator is given the
\* first-batch sentinel; with names it is given one line per name and that text
\* is not the sentinel.
C5_FirstBatchSentinel ==
  \A r \in Prompted :
    LET sent == r.body.already_generated
    IN  IF sent.omitted \/ sent.list = <<>>
        THEN r.prompt = <<"None yet (this is the first batch)">>
        ELSE /\ r.prompt # <<"None yet (this is the first batch)">>
             /\ Len(r.prompt) = Len(sent.list)
             /\ \A k \in 1..Len(sent.list) : r.prompt[k] = "- " \o sent.list[k]

\* C5's case: the endpoint has seen an omitted list, an empty list and a list
\* naming Tomato.
C5_Witness ==
  /\ hardware.pc = "done"
  /\ \E r \in Prompted :
       ~r.body.already_generated.omitted /\ r.body.already_generated.list = <<>>
  /\ \E r \in Prompted : "- Tomato" \in Range(r.prompt)

\* C6 as stated: a Load More called with sensor data that lacks any of the four
\* fields fails locally, with an error and without a request.
C6_MissingFieldFailsLocally ==
  \A i \in DOMAIN calls :
    (calls[i].sensor.null \/ \E f \in SensorFields : calls[i].sensor[f] = Undefined)
      => /\ calls[i].pc = "rejected"
         /\ calls[i].posts = 0
         /\ calls[i].raised # NoError

C8_NotFoundIsEmptyState ==
  [][
      (check.pc = "pending" /\ check'.pc = "done" /\ check'.status = 404) =>
        /\ cropsRecommendations' = NullRecommendations
        /\ cropsError' = NoError
        /\ isLoading' = FALSE
        /\ FarmerFormShown'
    ]_vars

\* C8's case: the check has ended on a 404.
C8_Witness ==
  /\ check = [pc |-> "done", status |-> 404]
  /\ cropsRecommendations.null
  /\ ~isLoading

\* The invocations whose POST was answered 200 with fewer than 8 crops and that
\* have ended.
ShortAnswered ==
  {i \in DOMAIN calls :
     /\ calls[i].response.status = 200
     /\ Len(calls[i].stored) < BatchSize
     /\ calls[i].pc \in {"merged", "failed"}}

\* C9 as stated: a batch of k < 8 crops is accepted: the call ends merged with
\* no error and one request sent, and the collection is k longer.
C9_ShortBatchGrowsByK ==
  \A i \in ShortAnswered :
    /\ calls[i].pc = "merged"
    /\ calls[i].raised = NoError
    /\ calls[i].posts = 1
    /\ Len(calls[i].after) = Len(calls[i].before) + Len(calls[i].stored)

\* C9 as amended: a batch of k < 8 crops is accepted: the call ends merged with
\* no error and one request sent, and the collection is at least k longer,
\* exactly k when the previous collection was the whole stored session as the
\* batch was appended and nothing else was appended before the refetch.
C9_ShortBatchAccepted ==
  \A i \in ShortAnswered :
    /\ calls[i].pc = "merged"
    /\ calls[i].raised = NoError
    /\ calls[i].posts = 1
    /\ Len(calls[i].after) >= Len(calls[i].before) + Len(calls[i].stored)
    /\ calls[i].exclusive =>
         Len(calls[i].after) = Len(calls[i].before) + Len(calls[i].stored)

\* C9's case: an exclusive Load More has merged a batch of ShortLen crops.
C9_Witness ==
  \E i \in ShortAnswered :
    /\ calls[i].exclusive
    /\ Len(calls[i].stored) = ShortLen
    /\ Len(calls[i].after) = Len(calls[i].before) + ShortLen

\* The POSTs of sensor readings that were answered 200: what was stored for
\* each and what was answered.
AnsweredPosts ==
  {[stored |-> calls[i].stored, response |-> calls[i].response] :
     i \in {j \in DOMAIN calls : calls[j].response.status = 200}}
  \cup (IF hardware.pc = "done"
        THEN {[stored |-> hardware.stored, response |-> hardware.response]}
        ELSE {})

MarkedIn(stored) == {k \in DOMAIN stored : stored[k].is_top_3}

\* top_3_crops is the names of the marked crops, in their stored order.
Top3AreTheMarked(r) ==
  /\ Len(r.response.top_3_crops) = Cardinality(MarkedIn(r.stored))
  /\ \A k \in DOMAIN r.response.top_3_crops :
       /\ r.stored[k].is_top_3
       /\ r.response.top_3_crops[k] = r.stored[k].crop

C11_OneRequestOnly ==
  \A i \in Posted : calls[i].posts = 1 /\ calls[i].gets = 0

\* C11 as amended: every invocation that gets past its guard sends the
\* generation POST once and never again, whether it succeeds or fails; a failed
\* one sends nothing else; a successful one then refetches the session (a GET
\* for the session, then a GET for its sensor); one stopped by the guard sends
\* nothing.
C11_OnePostThenRefetch ==
  \A i \in DOMAIN calls :
    /\ calls[i].posts = (IF calls[i].pc = "rejected" THEN 0 ELSE 1)
    /\ calls[i].gets = (CASE calls[i].pc = "refetch" -> 1
                          [] calls[i].pc = "merged"  -> 2
                          [] OTHER                   -> 0)

\* C11's case: one Load More has failed on a 500 and another has been merged.
C11_Witness ==
  \E i, j \in Posted :
    /\ calls[i].pc = "failed" /\ calls[i].response.status = 500
    /\ calls[i].posts = 1 /\ calls[i].gets = 0
    /\ calls[j].pc = "merged" /\ calls[j].gets = 2

\* The pairs of invocations that were outstanding together and started from
\* the same collection: the first was still outstanding when the second began.
SameCollectionInFlight ==
  {p \in Posted \X Posted :
     p[1] \in calls[p[2]].overlaps /\ calls[p[1]].before = calls[p[2]].before}

\* The crop names stored for invocation i.
StoredNames(i) == Range(CropNamesOf(calls[i].stored))

\* The batch stored for invocation i has distinct names, none of them on the
\* list the invocation sent.
BatchHonoursList(i) ==
  /\ NoDuplicates(CropNamesOf(calls[i].stored))
  /\ StoredNames(i) \cap Range(calls[i].body.already_generated.list) = {}

\* C12: two Load More invocations outstanding together from the same collection
\* send the same exclusion list, the names of that collection; and once both are
\* merged, a name that both batches hold appears twice in the displayed
\* collection, whether or not each batch honours the list it was sent.
C12_StaleListsDuplicate ==
  \A p \in SameCollectionInFlight :
    LET i == p[1]
        j == p[2]
    IN  /\ calls[i].body.already_generated = calls[j].body.already_generated
        /\ calls[j].body.already_generated.list = CropNamesOf(calls[i].before)
        /\ (i \in Merged /\ j \in Merged /\ StoredNames(i) \cap StoredNames(j) # {})
             => ~NoDuplicates(CropNamesOf(recommendations))

\* C12's case: two invocations outstanding together from the same collection
\* are both merged, each batch honours the list it was sent, and the displayed
\* collection holds a crop name twice.
C12_Witness ==
  \E p \in SameCollectionInFlight :
    /\ p[1] \in Merged /\ p[2] \in Merged
    /\ BatchHonoursList(p[1]) /\ BatchHonoursList(p[2])
    /\ calls[p[1]].before # <<>>
    /\ ~NoDuplicates(CropNamesOf(recommendations))

Repeating ==
  {i \in DOMAIN calls :
     StoredNames(i) \cap Range(CropNamesOf(calls[i].before)) # {}}

\* s holds t as a run of consecutive entries, starting after its first n.
HoldsAfter(s, t, n) ==
  \E k \in n..(Len(s) - Len(t)) : SubSeq(s, k + 1, k + Len(t)) = t

\* C14: a batch holding a name that the collection already had is answered 200
\* and never fails the call; once merged, the call raised no error, the
\* collection holds the previous entries followed by the whole batch, none of
\* it filtered out, and so holds a crop name twice.
C14_RepeatedNameAppended ==
  \A i \in Repeating :
    /\ calls[i].response.status = 200 => calls[i].pc \in {"refetch", "merged"}
    /\ i \in Merged =>
         /\ calls[i].raised = NoError
         /\ IsPrefix(calls[i].before, calls[i].after)
         /\ HoldsAfter(calls[i].after, calls[i].stored, Len(calls[i].before))
         /\ ~NoDuplicates(CropNamesOf(calls[i].after))

\* C14's case: a Load More from the first batch has merged a batch that repeats
\* "Tomato", and the page shows no error.
C14_Witness ==
  \E i \in Repeating \cap Merged :
    /\ Len(calls[i].before) = BatchSize
    /\ "Tomato" \in StoredNames(i)
    /\ recommendations = calls[i].after
    /\ error = NoError

\* The handleFormSubmit invocations whose request is outstanding.
Generating == {i \in DOMAIN submits : submits[i].pc = "post"}

\* One step of the generation calls: a call moves only from requesting to
\* merged or failed (a Load More passing through its refetch); the collection
\* is left alone when a call starts and while it stays outstanding; the step
\* that ends a call clears the flag, the step that starts one sets it.
GenerationCallStep ==
  /\ \A i \in DOMAIN calls :
       /\ calls'[i].pc # calls[i].pc =>
            \/ calls[i].pc = "post" /\ calls'[i].pc \in {"refetch", "failed"}
            \/ calls[i].pc = "refetch" /\ calls'[i].pc = "merged"
       /\ (i \in InFlight /\ i \in InFlight') => recommendations' = recommendations
       /\ (i \in InFlight /\ i \notin InFlight') => ~isLoadingMore'
  /\ \A i \in DOMAIN submits :
       /\ submits'[i].pc # submits[i].pc =>
            submits[i].pc = "post" /\ submits'[i].pc \in {"generated", "failed"}
       /\ (i \in Generating /\ i \in Generating') =>
            cropsRecommendations' = cropsRecommendations
       /\ (i \in Generating /\ i \notin Generating') => ~isGenerating'
  /\ \A i \in InFlight' \ DOMAIN calls :
       isLoadingMore' /\ recommendations' = recommendations
  /\ \A i \in Generating' \ DOMAIN submits :
       isGenerating' /\ cropsRecommendations' = cropsRecommendations

CropsErrorStep ==
  /\ Len(submits') > Len(submits) => cropsError' = NoError
  /\ \A i \in DOMAIN submits :
       /\ (submits[i].pc = "post" /\ submits'[i].pc = "generated") =>
            cropsError' = NoError
       /\ (submits[i].pc = "post" /\ submits'[i].pc = "failed") =>
            (cropsError' = submits'[i].raised /\ cropsError' # NoError)
  /\ submits' = submits => cropsError' = cropsError

TabOfPath(s) ==
  IF s = "/" THEN "home"
  ELSE IF s = "/chat" THEN "chat"
  ELSE IF \E i \in 1..Len(s) : Slice(s, i, 6) = "/crops" THEN "plant"
  ELSE IF \E i \in 1..Len(s) : Slice(s, i, 8) = "/history" THEN "history"
  ELSE IF \E i \in 1..Len(s) : Slice(s, i, 12) = "/greenhouse/" THEN "data"
  ELSE ""

\* The current path is /greenhouse/<g> or lies under it.
OnGreenhouse(g) ==
  /\ Slice(pathname, 1, 12 + Len(g)) = "/greenhouse/" \o g
  /\ Slice(pathname, 13 + Len(g), 1) \in {"", "/"}

\* C17 as stated, its first half: after any tab selections and route changes,
\* once the pathname effect has run, the active tab is the one the current
\* pathname maps to ('/' home, '/chat' chat, containing '/crops' plant, else
\* containing '/history' history, else containing '/greenhouse/' data).
C17_TabAgreesWithPath ==
  (page = "shell" /\ ~effectPending /\ TabOfPath(pathname) # "")
    => activeTab = TabOfPath(pathname)

\* C17, its second half alone: a step that makes 'plant' or 'data' the active
\* tab while on /greenhouse/<id>/... leads to /greenhouse/<id>/crops or to
\* /greenhouse/<id>, for the same <id>.
C17_PlantAndDataKeepId ==
  [][
      \A g \in GreenhouseIds :
        (page = "shell" /\ ~effectPending /\ OnGreenhouse(g)
           /\ activeTab' # activeTab) =>
          /\ activeTab' = "plant" => pathname' = "/greenhouse/" \o g \o "/crops"
          /\ activeTab' = "data" => pathname' = "/greenhouse/" \o g
    ]_vars

====
